---------------------------- MODULE Spec2Model ----------------------------
(***************************************************************************)
(* The downgradeable read/write spinlock of package lock.                  *)
(*                                                                         *)
(* Two revisions of type RW are modelled:                                  *)
(*   - src/lock.go          RW is a uint64; Lock, Unlock, RLock, RUnlock,  *)
(*                          Downgrade                                      *)
(*   - src/unnamed/part_000 RW is a uint32; Lock, Unlock, RLock, RUnlock,  *)
(*                          WUnlock                                        *)
(*                                                                         *)
(* A state word is a little-endian tuple of 16-bit limbs (four limbs for   *)
(* the uint64, two for the uint32), so that the modular arithmetic of      *)
(* atomic.AddUint64 / atomic.AddUint32 is kept at its full width.          *)
(* Every atomic operation of the code is one step of one thread.           *)
(***************************************************************************)
EXTENDS Integers, Sequences, FiniteSets, TLC

\* ------------------------------------------------------------------ bounds
\* Number of goroutines using the lock.
NumThreads == 4
\* Number of acquisitions (Lock or RLock calls) each goroutine makes.
MaxOps == 2

Threads == 1..NumThreads

\* ------------------------------------------------------- word arithmetic
\* Radix of one limb of a state word.
Base == 2^16

\* uint64(n) / uint32(n) for a small literal n (0 <= n < Base).
Uint64(n) == <<n, 0, 0, 0>>
Uint32(n) == <<n, 0>>

\* Go's unary ^ on an unsigned word: bitwise complement of every limb.
Not(x) == [i \in DOMAIN x |-> (Base - 1) - x[i]]

\* x + y + c modulo 2^(16 * Len(x)), limb by limb with carry c.
RECURSIVE AddCarry(_, _, _)
AddCarry(x, y, c) ==
    IF x = <<>> THEN <<>>
    ELSE LET s == Head(x) + Head(y) + c
         IN  <<s % Base>> \o AddCarry(Tail(x), Tail(y), s \div Base)

\* Unsigned wrap-around addition and subtraction (x - y = x + ^y + 1).
Add(x, y) == AddCarry(x, y, 0)
Sub(x, y) == AddCarry(x, Not(y), 1)

\* x & 1
And1(x) == x[1] % 2

\* x >> 1 restricted to what the model needs: the reader field of a word,
\* i.e. the word with bit 0 cleared.
ReaderField(x) == [x EXCEPT ![1] = x[1] - And1(x)]

\* ------------------------------------------------------------------ state
VARIABLES
    rw,       \* lock.go: the RW word (uint64)
    pc,       \* lock.go: where each goroutine is
    ops,      \* lock.go: acquisitions each goroutine has started
    writerAtAdd, \* lock.go, history: for each goroutine inside RLock or holding
              \* the read lock it gave, the write holders at its add when the
              \* add returned odd, each as <<goroutine, number of its
              \* acquisition, whether it has since called Unlock>>
    counter,  \* the plain shared counter of the Lock(); counter++; Unlock() client
    reg,      \* that client's local copy of counter between its read and its write
    rw32,     \* part_000: the RW word (uint32)
    pc32,     \* part_000: where each goroutine is
    ops32     \* part_000: acquisitions each goroutine has started

vars64 == <<rw, pc, ops, writerAtAdd>>
varsClient == <<counter, reg>>
vars32 == <<rw32, pc32, ops32>>
vars == <<rw, pc, ops, writerAtAdd, counter, reg, rw32, pc32, ops32>>

\* Positions of a goroutine:
\*   "idle"        between calls, holding nothing
\*   "Lock"        inside Lock, spinning on the compare-and-swap
\*   "write"       Lock has returned; Unlock/Downgrade not yet called
\*   "loaded"      write holder has read counter into reg
\*   "stored"      write holder has written reg + 1 to counter
\*   "RLock"       inside RLock after the add, spinning on the load
\*   "read"        RLock has returned; RUnlock not yet called
\*   "downgraded"  Downgrade has returned; RUnlock not yet called
Positions ==
    {"idle", "Lock", "write", "loaded", "stored", "RLock", "read", "downgraded"}

\* Lock has returned and neither Unlock nor Downgrade has been called.
WritePos == {"write", "loaded", "stored"}
\* RLock or Downgrade has returned and RUnlock has not been called.
ReadPos == {"read", "downgraded"}

Init ==
    /\ rw = Uint64(0)
    /\ pc = [t \in Threads |-> "idle"]
    /\ ops = [t \in Threads |-> 0]
    /\ writerAtAdd = [t \in Threads |-> {}]
    /\ counter = 0
    /\ reg = [t \in Threads |-> 0]
    /\ rw32 = Uint32(0)
    /\ pc32 = [t \in Threads |-> "idle"]
    /\ ops32 = [t \in Threads |-> 0]

\* ------------------------------------------------------- lock.go (uint64)
\* A wrong addend for Unlock, (^uint64(0)) + 1, which wraps to 0 and makes
\* Unlock leave the word as it is.
UnlockDeltaPlusOne == Add(Not(Uint64(0)), Uint64(1))

\* The addend of Unlock: (^uint64(0)) - 1.
UnlockDelta == Sub(Not(Uint64(0)), Uint64(1))
\* The addend of RUnlock: (^uint64(0)) - 2.
RUnlockDelta == Sub(Not(Uint64(0)), Uint64(2))

\* One iteration of Lock's loop: CompareAndSwapUint64(rw, 0, 1).  The call
\* returns when the swap happened and spins otherwise.
LockStep(t) ==
    /\ \/ pc[t] = "idle" /\ ops[t] < MaxOps /\ ops' = [ops EXCEPT ![t] = @ + 1]
       \/ pc[t] = "Lock" /\ ops' = ops
    /\ IF rw = Uint64(0)
       THEN /\ rw' = Uint64(1)
            /\ pc' = [pc EXCEPT ![t] = "write"]
       ELSE /\ rw' = rw
            /\ pc' = [pc EXCEPT ![t] = "Lock"]
    /\ UNCHANGED <<varsClient, writerAtAdd>>

Lock(t) == LockStep(t) /\ UNCHANGED vars32

\* Unlock: AddUint64(rw, (^uint64(0))-1).  Called by the write holder.
UnlockStep(t) ==
    /\ pc[t] \in {"write", "stored"}
    /\ rw' = Add(rw, UnlockDelta)
    /\ pc' = [pc EXCEPT ![t] = "idle"]
    /\ writerAtAdd' = [u \in Threads |->
           {IF h[1] = t /\ h[2] = ops[t] THEN <<h[1], h[2], TRUE>> ELSE h :
               h \in writerAtAdd[u]}]
    /\ UNCHANGED <<ops, varsClient>>

Unlock(t) == UnlockStep(t) /\ UNCHANGED vars32

\* RLock, first statement: AddUint64(rw, 2), then the test of bit 0 of the
\* value the add returned.
RLockAddStep(t) ==
    /\ pc[t] = "idle"
    /\ ops[t] < MaxOps
    /\ ops' = [ops EXCEPT ![t] = @ + 1]
    /\ rw' = Add(rw, Uint64(2))
    /\ pc' = [pc EXCEPT ![t] = IF And1(rw') # 0 THEN "RLock" ELSE "read"]
    /\ writerAtAdd' = [writerAtAdd EXCEPT
           ![t] = IF And1(rw') # 0
                  THEN {<<w, ops[w], FALSE>> :
                           w \in {u \in Threads : pc[u] \in WritePos}}
                  ELSE {}]
    /\ UNCHANGED <<varsClient>>

RLockAdd(t) == RLockAddStep(t) /\ UNCHANGED vars32

\* RLock, one iteration of the spin loop: LoadUint64(rw) & 1 != 0.
RLockSpinStep(t) ==
    /\ pc[t] = "RLock"
    /\ pc' = [pc EXCEPT ![t] = IF And1(rw) # 0 THEN "RLock" ELSE "read"]
    /\ UNCHANGED <<rw, ops, varsClient, writerAtAdd>>

RLockSpin(t) == RLockSpinStep(t) /\ UNCHANGED vars32

RLock(t) == RLockAdd(t) \/ RLockSpin(t)

\* RUnlock: AddUint64(rw, (^uint64(0))-2).  Called by a read holder.
RUnlockStep(t) ==
    /\ pc[t] \in ReadPos
    /\ rw' = Add(rw, RUnlockDelta)
    /\ pc' = [pc EXCEPT ![t] = "idle"]
    /\ writerAtAdd' = [writerAtAdd EXCEPT ![t] = {}]
    /\ UNCHANGED <<ops, varsClient>>

RUnlock(t) == RUnlockStep(t) /\ UNCHANGED vars32

\* Downgrade: AddUint64(rw, 1).  Called by the write holder, who is a
\* reader afterwards.
DowngradeStep(t) ==
    /\ pc[t] = "write"
    /\ rw' = Add(rw, Uint64(1))
    /\ pc' = [pc EXCEPT ![t] = "downgraded"]
    /\ UNCHANGED <<ops, varsClient, writerAtAdd>>

Downgrade(t) == DowngradeStep(t) /\ UNCHANGED vars32

\* Any number of goroutines using the lock as documented: every Unlock and
\* Downgrade by the write holder, every RUnlock by a read holder.
Next ==
    \E t \in Threads :
        \/ Lock(t)
        \/ Unlock(t)
        \/ RLock(t)
        \/ RUnlock(t)
        \/ Downgrade(t)

Spec == Init /\ [][Next]_vars

\* ------------------------------------ the Lock(); counter++; Unlock() client
\* counter++ is a plain read followed by a plain write, both made by the
\* goroutine whose Lock has returned.
Load(t) ==
    /\ pc[t] = "write"
    /\ reg' = [reg EXCEPT ![t] = counter]
    /\ pc' = [pc EXCEPT ![t] = "loaded"]
    /\ UNCHANGED <<rw, ops, counter, writerAtAdd, vars32>>

Store(t) ==
    /\ pc[t] = "loaded"
    /\ counter' = reg[t] + 1
    /\ pc' = [pc EXCEPT ![t] = "stored"]
    /\ UNCHANGED <<rw, ops, reg, writerAtAdd, vars32>>

\* One step of goroutine t looping MaxOps times over
\* Lock(); counter++; Unlock().
Worker(t) ==
    \/ Lock(t)
    \/ Load(t)
    \/ Store(t)
    \/ pc[t] = "stored" /\ Unlock(t)

NextWorkers == \E t \in Threads : Worker(t)

\* Every goroutine that can take a step that changes the state eventually
\* takes one: the Go scheduler runs every runnable goroutine.
WorkerSpec ==
    Init /\ [][NextWorkers]_vars /\ \A t \in Threads : WF_vars(Worker(t))

\* Goroutines that only read: RLock(); ...; RUnlock().
NextReaders == \E t \in Threads : RLock(t) \/ RUnlock(t)

ReaderSpec == Init /\ [][NextReaders]_vars

\* --------------------------------------------------- part_000 (uint32)
\* The addend of Unlock: ^uint32(0) - 1.
UnlockDelta32 == Sub(Not(Uint32(0)), Uint32(1))
\* The addend of RUnlock: ^uint32(0) - 2.
RUnlockDelta32 == Sub(Not(Uint32(0)), Uint32(2))

\* One iteration of Lock's loop: for CompareAndSwapUint32(rw, 0, 1) {}.
\* The loop goes on while the swap happens and the call returns when it
\* does not.
Lock32Step(t) ==
    /\ \/ pc32[t] = "idle" /\ ops32[t] < MaxOps
             /\ ops32' = [ops32 EXCEPT ![t] = @ + 1]
       \/ pc32[t] = "Lock" /\ ops32' = ops32
    /\ IF rw32 = Uint32(0)
       THEN /\ rw32' = Uint32(1)
            /\ pc32' = [pc32 EXCEPT ![t] = "Lock"]
       ELSE /\ rw32' = rw32
            /\ pc32' = [pc32 EXCEPT ![t] = "write"]
    /\ UNCHANGED <<varsClient>>

Lock32(t) == Lock32Step(t) /\ UNCHANGED vars64

\* Unlock: AddUint32(rw, ^uint32(0) - 1).
Unlock32Step(t) ==
    /\ pc32[t] = "write"
    /\ rw32' = Add(rw32, UnlockDelta32)
    /\ pc32' = [pc32 EXCEPT ![t] = "idle"]
    /\ UNCHANGED <<ops32, varsClient>>

Unlock32(t) == Unlock32Step(t) /\ UNCHANGED vars64

\* RLock, first statement: AddUint32(rw, 2) and the test of bit 0.
RLockAdd32Step(t) ==
    /\ pc32[t] = "idle"
    /\ ops32[t] < MaxOps
    /\ ops32' = [ops32 EXCEPT ![t] = @ + 1]
    /\ rw32' = Add(rw32, Uint32(2))
    /\ pc32' = [pc32 EXCEPT ![t] = IF And1(rw32') # 0 THEN "RLock" ELSE "read"]
    /\ UNCHANGED <<varsClient>>

RLockAdd32(t) == RLockAdd32Step(t) /\ UNCHANGED vars64

\* RLock, one iteration of the spin loop: LoadUint32(rw) & 1 != 0.
RLockSpin32Step(t) ==
    /\ pc32[t] = "RLock"
    /\ pc32' = [pc32 EXCEPT ![t] = IF And1(rw32) # 0 THEN "RLock" ELSE "read"]
    /\ UNCHANGED <<rw32, ops32, varsClient>>

RLockSpin32(t) == RLockSpin32Step(t) /\ UNCHANGED vars64

RLock32(t) == RLockAdd32(t) \/ RLockSpin32(t)

\* RUnlock: AddUint32(rw, ^uint32(0) - 2).
RUnlock32Step(t) ==
    /\ pc32[t] \in ReadPos
    /\ rw32' = Add(rw32, RUnlockDelta32)
    /\ pc32' = [pc32 EXCEPT ![t] = "idle"]
    /\ UNCHANGED <<ops32, varsClient>>

RUnlock32(t) == RUnlock32Step(t) /\ UNCHANGED vars64

\* WUnlock: AddUint32(rw, 1), the write holder becoming a reader.
WUnlock32Step(t) ==
    /\ pc32[t] = "write"
    /\ rw32' = Add(rw32, Uint32(1))
    /\ pc32' = [pc32 EXCEPT ![t] = "downgraded"]
    /\ UNCHANGED <<ops32, varsClient>>

WUnlock32(t) == WUnlock32Step(t) /\ UNCHANGED vars64

Next32 ==
    \E t \in Threads :
        \/ Lock32(t)
        \/ Unlock32(t)
        \/ RLock32(t)
        \/ RUnlock32(t)
        \/ WUnlock32(t)

Spec32 == Init /\ [][Next32]_vars

\* ----------------------------------------- the two revisions side by side
\* Every goroutine makes the same calls in the same order on a uint64 RW and
\* on a uint32 RW: a call is entered in both revisions in one step (its first
\* atomic operation in each), and the later iterations of a spin loop are
\* steps of the revision that is still inside the call.
CallLock(t) ==
    /\ pc[t] = "idle" /\ pc32[t] = "idle"
    /\ LockStep(t) /\ Lock32Step(t)

CallUnlock(t) ==
    /\ pc[t] = "write" /\ pc32[t] = "write"
    /\ UnlockStep(t) /\ Unlock32Step(t)

CallRLock(t) ==
    /\ pc[t] = "idle" /\ pc32[t] = "idle"
    /\ RLockAddStep(t) /\ RLockAdd32Step(t)

CallRUnlock(t) ==
    /\ pc[t] \in ReadPos /\ pc32[t] \in ReadPos
    /\ RUnlockStep(t) /\ RUnlock32Step(t)

\* Downgrade in lock.go, WUnlock in part_000.
CallDowngrade(t) ==
    /\ pc[t] = "write" /\ pc32[t] = "write"
    /\ DowngradeStep(t) /\ WUnlock32Step(t)

SpinLock(t) == pc[t] = "Lock" /\ Lock(t)
SpinLock32(t) == pc32[t] = "Lock" /\ Lock32(t)

NextBoth ==
    \E t \in Threads :
        \/ CallLock(t)
        \/ CallUnlock(t)
        \/ CallRLock(t)
        \/ CallRUnlock(t)
        \/ CallDowngrade(t)
        \/ SpinLock(t)
        \/ SpinLock32(t)
        \/ RLockSpin(t)
        \/ RLockSpin32(t)

BothSpec == Init /\ [][NextBoth]_vars

\* ------------------------------------------- calls outside the contract
\* Unlock, RUnlock and Downgrade check nothing: called by a goroutine that
\* holds nothing they do the same atomic add and return.  Each such call
\* counts among the calls the goroutine makes.
UnlockUnheld(t) ==
    /\ pc[t] = "idle"
    /\ ops[t] < MaxOps
    /\ ops' = [ops EXCEPT ![t] = @ + 1]
    /\ rw' = Add(rw, UnlockDelta)
    /\ UNCHANGED <<pc, varsClient, writerAtAdd, vars32>>

RUnlockUnheld(t) ==
    /\ pc[t] = "idle"
    /\ ops[t] < MaxOps
    /\ ops' = [ops EXCEPT ![t] = @ + 1]
    /\ rw' = Add(rw, RUnlockDelta)
    /\ UNCHANGED <<pc, varsClient, writerAtAdd, vars32>>

DowngradeUnheld(t) ==
    /\ pc[t] = "idle"
    /\ ops[t] < MaxOps
    /\ ops' = [ops EXCEPT ![t] = @ + 1]
    /\ rw' = Add(rw, Uint64(1))
    /\ UNCHANGED <<pc, varsClient, writerAtAdd, vars32>>

Misuse(t) == UnlockUnheld(t) \/ RUnlockUnheld(t) \/ DowngradeUnheld(t)

\* Goroutines that call Lock and Unlock, and that may also call Unlock,
\* RUnlock or Downgrade while holding nothing.
NextMisuse ==
    \E t \in Threads :
        \/ Lock(t)
        \/ Unlock(t)
        \/ Misuse(t)

MisuseSpec == Init /\ [][NextMisuse]_vars

\* ------------------------------------------------------------- properties
Writers == {t \in Threads : pc[t] \in WritePos}
Readers == {t \in Threads : pc[t] \in ReadPos}
Writers32 == {t \in Threads : pc32[t] \in WritePos}

\* Every goroutine has made all its acquisitions and released them.
AllDone == \A t \in Threads : pc[t] = "idle" /\ ops[t] = MaxOps

\* C1 (part_000, Spec32): at most one goroutine is between the return of its
\* Lock and its own Unlock/WUnlock; of the goroutines racing Lock on an
\* unlocked word only one returns.
C1_WriterMutex32 == Cardinality(Writers32) <= 1

\* C1 (lock.go, Spec): the same statement for the uint64 revision, with
\* readers using the lock beside the writers.
C1_WriterMutex == Cardinality(Writers) <= 1

\* C2 (lock.go, Spec): while some goroutine has returned from RLock and has
\* not yet called RUnlock, no Lock call returns.
C2_NoLockWhileRead ==
    [][(\E r \in Threads : pc[r] = "read")
          => \A t \in Threads : ~(pc[t] \notin WritePos /\ pc'[t] \in WritePos)]_vars

\* C3 (lock.go, Spec): an RLock whose add returned an odd value while some
\* goroutine held the write lock does not return as long as that goroutine
\* is still in the same critical section (has called neither Unlock nor
\* Downgrade).
C3_ReaderWaitsForWriter ==
    [][\A t \in Threads :
          (pc[t] = "RLock" /\ pc'[t] = "read")
             => \A h \in writerAtAdd[t] :
                   ~(pc[h[1]] \in WritePos /\ ops[h[1]] = h[2])]_vars

\* C4 (lock.go, Spec): Downgrade takes the word from 1 to 2 in one step, and
\* from then until the downgrading goroutine calls RUnlock the word is never
\* 0 and no other goroutine's Lock has returned.
C4_DowngradeAtomic ==
    [][\A t \in Threads :
          /\ (Downgrade(t) /\ rw = Uint64(1)) => rw' = Uint64(2)
          /\ pc'[t] = "downgraded"
                => /\ rw' # Uint64(0)
                   /\ \A u \in Threads \ {t} : pc'[u] \notin WritePos]_vars

\* C5 (lock.go, WorkerSpec): with goroutines that only call Lock and Unlock,
\* the word is 0 whenever no goroutine is between Lock and Unlock, that is
\* after each matched pair.
C5_WriteRoundTrip == (Writers = {}) => rw = Uint64(0)

\* C6 (lock.go, Spec): Unlock by the write holder in state 2k+1 leaves 2k:
\* bit 0 cleared, the reader field as it was.
C6_UnlockClearsBit0 ==
    [][\A t \in Threads :
          (Unlock(t) /\ And1(rw) = 1)
             => And1(rw') = 0 /\ ReaderField(rw') = ReaderField(rw)]_vars

\* C7 (lock.go, Spec): RUnlock leaves the word at s - 2 modulo 2^64 and RLock
\* at s + 2, so neither changes bit 0.
C7_ReaderOpsByTwo ==
    [][\A t \in Threads :
          /\ RUnlock(t) => rw' = Sub(rw, Uint64(2)) /\ And1(rw') = And1(rw)
          /\ RLockAdd(t) => rw' = Add(rw, Uint64(2)) /\ And1(rw') = And1(rw)]_vars

\* C8 (lock.go, Spec): Lock; Downgrade; RUnlock by one goroutine from state 0
\* with no other goroutine ever active ends in state 0.
C8_DowngradeRoundTrip ==
    [][\A t \in Threads :
          (/\ RUnlock(t)
           /\ pc[t] = "downgraded"
           /\ ops[t] = 1
           /\ \A u \in Threads \ {t} : ops[u] = 0)
             => rw' = Uint64(0)]_vars

\* C9 (lock.go, ReaderSpec): with readers only, no RLock ever spins, every
\* state of the word is even, and the word is twice the number of read
\* holders (2N with N holders, 0 when all have released).
C9_ReadersOnly ==
    /\ \A t \in Threads : pc[t] # "RLock"
    /\ And1(rw) = 0
    /\ rw = Uint64(2 * Cardinality(Readers))

\* C10 (lock.go, WorkerSpec): NumThreads goroutines each doing MaxOps times
\* Lock(); counter++; Unlock(): as long as some goroutine has iterations left
\* a step that changes the state is possible (no goroutine set spins for
\* ever), and once all are done counter = NumThreads * MaxOps.
C10_NoLostUpdates ==
    /\ AllDone \/ ENABLED <<NextWorkers>>_vars
    /\ AllDone => counter = NumThreads * MaxOps

\* C10, as a property of behaviours: under weak fairness of every goroutine
\* all of them terminate, with counter = NumThreads * MaxOps.
C10_Terminates == <>(AllDone /\ counter = NumThreads * MaxOps)

\* Goroutines that have done the RLock add or a Downgrade and have not yet
\* called RUnlock.
Reserved == {t \in Threads : pc[t] \in ReadPos \cup {"RLock"}}

\* The word the encoding gives to R reserved readers and W write holders.
Encoded(R, W) == Uint64(2 * R + W)

\* C11 (lock.go, Spec): A calls Lock (1), B calls RLock while A holds the
\* write lock (3, B spins), A calls Downgrade (4), B leaves its spin, A and B
\* call RUnlock in either order (2, then 0); no other goroutine takes part.
C11_DowngradePendingReader ==
    [][\A A, B \in Threads :
          (/\ A # B
           /\ writerAtAdd[B] = {<<A, 1, FALSE>>}
           /\ ops[A] = 1 /\ ops[B] = 1
           /\ \A u \in Threads \ {A, B} : ops'[u] = 0)
          => /\ (pc[A] = "write" /\ pc'[A] = "downgraded") => rw' = Uint64(4)
             /\ (pc[A] = "downgraded" /\ pc[B] = "RLock")
                   => (RLockSpin(B) => pc'[B] = "read" /\ rw' = Uint64(4))
             /\ (pc[A] = "downgraded" /\ pc[B] = "read"
                   /\ (RUnlock(A) \/ RUnlock(B))) => rw' = Uint64(2)
             /\ (pc[A] = "idle" /\ pc[B] = "read" /\ rw = Uint64(2)
                   /\ RUnlock(B)) => rw' = Uint64(0)]_vars

\* C12 (lock.go, Spec): the word is 2*R + W, R the number of goroutines that
\* have reserved a read slot and not released it, W = 1 if some goroutine
\* holds the write lock and 0 otherwise.
C12_Encoding ==
    rw = Encoded(Cardinality(Reserved), IF Writers = {} THEN 0 ELSE 1)

\* C19 (lock.go, Spec): the word never wraps: its value lies in
\* 0 .. 2*NumThreads + 1.
C19_NoWrapAround == \E n \in 0..(2 * NumThreads + 1) : rw = Uint64(n)

\* C13 (part_000, Spec32): a Lock called on a non-zero word does not return
\* at that compare-and-swap, and a compare-and-swap on a non-zero word
\* leaves the word unchanged.
C13_LockCAS32 ==
    [][\A t \in Threads :
          (Lock32(t) /\ rw32 # Uint32(0))
             => /\ rw32' = rw32
                /\ pc32[t] = "idle" => pc32'[t] \notin WritePos]_vars

\* C13 (lock.go, Spec): Lock returns exactly at the step in which its own
\* compare-and-swap takes the word from 0 to 1; on a non-zero word it keeps
\* spinning and leaves the word unchanged.
C13_LockCAS ==
    [][\A t \in Threads :
          /\ (pc[t] \notin WritePos /\ pc'[t] \in WritePos)
                => rw = Uint64(0) /\ rw' = Uint64(1)
          /\ (Lock(t) /\ rw # Uint64(0)) => rw' = rw /\ pc'[t] = "Lock"]_vars

\* C14 (lock.go, Spec): when the write holder a parked reader is waiting for
\* calls Unlock or Downgrade, bit 0 is clear afterwards, so the reader's next
\* load ends its spin; and the spin loop only loads (the reader's add of 2
\* happened once).
C14_ParkedReaderReleased ==
    [][\A t \in Threads :
          /\ RLockSpin(t) => rw' = rw
          /\ \A w \in Threads :
                (/\ pc[t] = "RLock"
                 /\ <<w, ops[w], FALSE>> \in writerAtAdd[t]
                 /\ (Unlock(w) \/ Downgrade(w)))
                   => And1(rw') = 0]_vars

\* Goroutine t reserved a read slot while some goroutine held the write lock,
\* that write holder has since called Unlock, and t has not yet called
\* RUnlock.
InReservedSlot(t) ==
    /\ pc[t] \in {"RLock", "read"}
    /\ \E h \in writerAtAdd[t] : h[3]

\* C15 (lock.go, Spec): from the Unlock of the write holder a reader reserved
\* under until that reader's RUnlock, the word is never 0 and no Lock
\* returns.
C15_ReservedReaderFirst ==
    [][\A t \in Threads :
          InReservedSlot(t)
             => /\ rw # Uint64(0)
                /\ \A u \in Threads :
                      ~(pc[u] \notin WritePos /\ pc'[u] \in WritePos)]_vars

\* C16 (lock.go, Spec): with every goroutine making MaxOps correctly paired
\* acquisitions, some step that changes the state is possible until all of
\* them are done (no call spins for ever), and then the word is 0.
C16_NoIndefiniteSpin ==
    /\ AllDone \/ ENABLED <<Next>>_vars
    /\ AllDone => rw = Uint64(0)

\* C17 (lock.go, MisuseSpec): Unlock, RUnlock or Downgrade called on the
\* unlocked word by a goroutine holding nothing returns (the caller is idle
\* again) and leaves the word non-zero; and a Lock returns only at a step
\* that finds the word 0, so none does while the word stays non-zero.
C17_MisuseSilent ==
    [][\A t \in Threads :
          /\ (Misuse(t) /\ rw = Uint64(0)) => rw' # Uint64(0) /\ pc'[t] = "idle"
          /\ (pc[t] \notin WritePos /\ pc'[t] \in WritePos) => rw = Uint64(0)]_vars

\* C17, witness: one goroutine has made a single call, an Unlock on the
\* unlocked word, and another is spinning in Lock on the word it left.
C17_Witness ==
    \E m, l \in Threads :
        /\ m # l
        /\ pc[m] = "idle" /\ ops[m] = 1
        /\ pc[l] = "Lock" /\ ops[l] = 1
        /\ \A u \in Threads \ {m, l} : ops[u] = 0
        /\ rw = UnlockDelta

\* The low 32 bits of a uint64 word.
Low32(x) == <<x[1], x[2]>>

\* C18 (lock.go and part_000, BothSpec): run on the same calls, the two
\* revisions agree on which calls return and which keep spinning (a call
\* that has returned in one revision has returned in the other or returns
\* at its next atomic operation there), and as long as every goroutine is at
\* the same place in both, the uint32 word is the uint64 word modulo 2^32.
C18_SamePrimitive ==
    /\ \A t \in Threads :
          /\ (pc32[t] \in WritePos /\ pc[t] = "Lock") => rw = Uint64(0)
          /\ (pc[t] \in WritePos /\ pc32[t] = "Lock") => rw32 # Uint32(0)
          /\ (pc32[t] = "read" /\ pc[t] = "RLock") => And1(rw) = 0
          /\ (pc[t] = "read" /\ pc32[t] = "RLock") => And1(rw32) = 0
    /\ pc = pc32 => rw32 = Low32(rw)

=============================================================================
